---- MODULE Spec2Model ----
(***************************************************************************)
(* Model of bot.py: the per-cycle routine run() with the daily archive     *)
(* (save_full_news_of_today), the month/year manifests, the paginated      *)
(* global index (gi_append_records) and the YouTube ledger                 *)
(* (send_youtube_if_new).  Files are modelled by their content; an I/O     *)
(* failure or a process crash is a nondeterministic choice of the step.    *)
(***************************************************************************)
EXTENDS Integers, Sequences, FiniteSets, TLC

(***************************************************************************)
(* Bounds of the model.                                                    *)
(***************************************************************************)
MaxBatch == 2      \* longest feed (number of entries) one fetch returns
MaxAnon == 2       \* identity-less records one day partition may receive
MaxLedger == 2     \* lines of sent_videos.txt
MaxCalls == 3      \* direct gi_append_records calls (SpecGI)
MaxFaults == 1     \* I/O failures and crashes injected in one behaviour

(***************************************************************************)
(* Program constants.                                                      *)
(***************************************************************************)
GLOBAL_PAGE_SIZE == 500
AlbumMax == 4
UtcOffsetHours == 1

Null == "null"

\* A missing published_parsed / published value.
NoTime == [day |-> 0, hour |-> 0]

\* Python truthiness of an optional string: None and "" are falsy.
Truthy(x) == x # Null /\ x # ""

\* Python's `a or b`.
Or2(a, b) == IF Truthy(a) THEN a ELSE b

(***************************************************************************)
(* Time.  The local calendar days the model runs through, in order; `now`  *)
(* is an index into it.                                                    *)
(***************************************************************************)
Calendar == << [y |-> 2025, m |-> 11, d |-> 30], [y |-> 2025, m |-> 12, d |-> 1] >>

NumDays == Len(Calendar)

now_local(n) == Calendar[n]

\* A feedparser *_parsed value is a UTC time: [day, hour], day an index of Calendar.
\* to_local_iso shifts it to the local zone; None stays None.
to_local_iso(dt_struct) ==
  IF dt_struct = NoTime THEN NoTime
  ELSE LET h == dt_struct.hour + UtcOffsetHours
       IN  [day |-> dt_struct.day + (h \div 24), hour |-> h % 24]

\* A variant that ignores the day it is given: the path computed once, on the first day.
daily_path_first(dt) == << Calendar[1].y, Calendar[1].m, Calendar[1].d >>

\* data/YYYY/MM/DD-MM.json
daily_path(dt) == << dt.y, dt.m, dt.d >>

month_dir(dt) == << dt.y, dt.m >>

\* Day partitions of earlier days of the first month: the data directory may hold
\* them when a manifest is rebuilt.
ArchivedBefore == { << Calendar[1].y, Calendar[1].m, Calendar[1].d - k >> : k \in 1..2 }

DayPaths ==
  { << Calendar[i].y, Calendar[i].m, Calendar[i].d >> : i \in 1..NumDays } \cup ArchivedBefore
MonthDirs == { << Calendar[i].y, Calendar[i].m >> : i \in 1..NumDays }
Years == { Calendar[i].y : i \in 1..NumDays }

(***************************************************************************)
(* Files.  A JSON list file is absent, holds a list, or holds the unusable *)
(* remains of a write that failed part-way.                                *)
(***************************************************************************)
Absent == [state |-> "absent", data |-> << >>]
Corrupt == [state |-> "corrupt", data |-> << >>]
ListFile(data) == [state |-> "ok", data |-> data]

Exists(file) == file.state # "absent"

load_json_list(file, read_ok) ==
  IF ~Exists(file) THEN << >>
  ELSE IF file.state = "ok" /\ read_ok THEN file.data
  ELSE << >>

WriteOutcomes == {"ok", "fail", "partial"}

\* The exception is caught and logged: the caller sees no difference.
save_json_list(file, data, outcome) ==
  CASE outcome = "ok" -> ListFile(data)
    [] outcome = "fail" -> file
    [] OTHER -> Corrupt

(***************************************************************************)
(* Feed entries and records.                                               *)
(***************************************************************************)
Entries ==
  { [id |-> "a", link |-> "u1", title |-> "t1", image |-> "img1",
     published |-> [day |-> 1, hour |-> 23]],
    [id |-> Null, link |-> "u1", title |-> "t2", image |-> Null,
     published |-> NoTime],
    [id |-> Null, link |-> Null, title |-> "c", image |-> Null,
     published |-> [day |-> 1, hour |-> 10]],
    [id |-> Null, link |-> Null, title |-> "", image |-> "img4",
     published |-> NoTime] }

build_full_record(e) ==
  LET rec_id == Or2(e.id, Or2(e.link, e.title))
  IN  [id |-> IF Truthy(rec_id) THEN rec_id ELSE Null,
       title |-> Or2(e.title, ""),
       image |-> e.image,
       published |-> to_local_iso(e.published),
       url |-> Or2(e.link, "")]

Records == { build_full_record(e) : e \in Entries }

\* An entry that yields neither id nor url is never recognised again.
Anonymous(rec) == ~Truthy(rec.id) /\ ~Truthy(rec.url)

RECURSIVE SeqToSet(_)
SeqToSet(s) == IF s = << >> THEN {} ELSE {Head(s)} \cup SeqToSet(Tail(s))

Prefix(s, n) == IF Len(s) <= n THEN s ELSE SubSeq(s, 1, n)

(***************************************************************************)
(* Persist Daily News: save_full_news_of_today.                            *)
(***************************************************************************)
\* A variant that forgets the ids the partition holds.
SeenIdsNone(existing) == {}

SeenIds(existing) ==
  { existing[i].id : i \in { j \in 1..Len(existing) : Truthy(existing[j].id) } }

SeenUrls(existing) ==
  { existing[i].url : i \in { j \in 1..Len(existing) : Truthy(existing[j].url) } }

\* The loop over the entries: a record whose id or url was seen is skipped,
\* every other one is appended and its id and url become seen.
RECURSIVE AppendNew(_, _, _, _, _)
AppendNew(entries, existing, seen_ids, seen_urls, added) ==
  IF entries = << >> THEN [existing |-> existing, added |-> added]
  ELSE LET rec == build_full_record(Head(entries))
           rid == rec.id
           rurl == rec.url
       IN  IF (Truthy(rid) /\ rid \in seen_ids) \/ (Truthy(rurl) /\ rurl \in seen_urls)
           THEN AppendNew(Tail(entries), existing, seen_ids, seen_urls, added)
           ELSE AppendNew(Tail(entries), Append(existing, rec),
                          IF Truthy(rid) THEN seen_ids \cup {rid} ELSE seen_ids,
                          IF Truthy(rurl) THEN seen_urls \cup {rurl} ELSE seen_urls,
                          Append(added, rec))

\* file: today's partition file before the call.  Returns the file after the
\* call and the list the function returns.  mkdir_ok: ensure_dir of daily_path
\* raised nothing; when it raises the exception leaves the function (raised)
\* before anything is read or written.
save_full_news_of_today(file, entries, mkdir_ok, read_ok, outcome) ==
  IF ~mkdir_ok
  THEN [file |-> file, added |-> << >>, wrote |-> FALSE, failed |-> FALSE, raised |-> TRUE]
  ELSE
  LET existing == load_json_list(file, read_ok)
      r == AppendNew(entries, existing, SeenIds(existing), SeenUrls(existing), << >>)
  IN  [file |-> IF r.added # << >> THEN save_json_list(file, r.existing, outcome) ELSE file,
       added |-> r.added,
       wrote |-> r.added # << >> /\ outcome # "fail",
       failed |-> r.added # << >> /\ outcome # "ok",
       raised |-> FALSE]

(***************************************************************************)
(* Manifests: both are rebuilt from a scan of the directory.               *)
(***************************************************************************)
Max(S) == CHOOSE x \in S : \A y \in S : y <= x

RECURSIVE SortedDesc(_)
SortedDesc(S) == IF S = {} THEN << >> ELSE << Max(S) >> \o SortedDesc(S \ {Max(S)})

ManifestFile(data) == [state |-> "ok", data |-> data]

\* What month_dir.glob("*.json") finds: the day files DD-MM.json the directory
\* holds and, once it has been written (whole or not), month_manifest.json.
MonthDirEntries(files, mfile, md) ==
  { [name |-> "day", key |-> p[3]] :
      p \in { q \in DayPaths : q[1] = md[1] /\ q[2] = md[2] /\ Exists(files[q]) } }
  \cup (IF Exists(mfile) THEN { [name |-> "month_manifest", key |-> 0] } ELSE {})

\* A variant that lists every *.json file of the directory.
AnyJson(e) == TRUE

\* if p.name == "month_manifest.json": continue
IsDayFile(e) == e.name # "month_manifest"

\* entries: the scan of the month directory; lists every DD-MM.json among them.
month_manifest(entries, dt) ==
  LET keys == SortedDesc({ e.key : e \in { x \in entries : IsDayFile(x) } })
  IN  [year |-> dt.y, month |-> dt.m,
       days |-> [i \in 1..Len(keys) |-> << keys[i], << dt.y, dt.m, keys[i] >> >>]]

\* What the year directory holds: the month directories and, once it has been
\* written, year_manifest.json.
YearDirEntries(dirs, yfile, y) ==
  { [name |-> "dir", key |-> md[2]] : md \in { x \in dirs : x[1] = y } }
  \cup (IF Exists(yfile) THEN { [name |-> "year_manifest", key |-> 0] } ELSE {})

\* entries: the scan of the year directory; year_dir.glob("[0-1][0-9]") keeps the
\* two-digit names, the month directories, each listed with the path of its manifest.
year_manifest(entries, dt) ==
  LET keys == SortedDesc({ e.key : e \in { x \in entries : x.name = "dir" } })
  IN  [year |-> dt.y,
       months |-> [i \in 1..Len(keys) |-> << keys[i], << dt.y, keys[i] >> >>]]

\* Where a rebuild stops, if it does: ensure_dir of the month directory raises
\* ("mkdir": nothing is made or written), the write of the month manifest fails
\* ("month"), or ensure_dir of the year directory or the write of the year
\* manifest fails ("year").
ManifestFaults == {"none", "mkdir", "month", "year"}

\* update_month_manifest(dt); update_year_manifest(dt).  cut: the failing write
\* was begun and leaves its file unreadable; otherwise the file is as it was.
update_manifests(dirset, files, mfiles, yfiles, dt, fail, cut) ==
  LET md == month_dir(dt)
      dirs1 == IF fail = "mkdir" THEN dirset ELSE dirset \cup {md}
      month == CASE fail = "mkdir" -> mfiles[md]
                 [] fail = "month" -> (IF cut THEN Corrupt ELSE mfiles[md])
                 [] OTHER -> ManifestFile(month_manifest(MonthDirEntries(files, mfiles[md], md), dt))
      year == CASE fail \in {"mkdir", "month"} -> yfiles[dt.y]
                [] fail = "year" -> (IF cut THEN Corrupt ELSE yfiles[dt.y])
                [] OTHER -> ManifestFile(year_manifest(YearDirEntries(dirs1, yfiles[dt.y], dt.y), dt))
  IN  [dirs |-> dirs1,
       month_files |-> [mfiles EXCEPT ![md] = month],
       year_files |-> [yfiles EXCEPT ![dt.y] = year],
       wrote |-> (IF fail = "mkdir" \/ (fail = "month" /\ ~cut) THEN {} ELSE {"month"})
                 \cup (IF fail = "none" \/ (fail = "year" /\ cut) THEN {"year"} ELSE {}),
       raised |-> fail # "none"]

(***************************************************************************)
(* Global index.                                                           *)
(***************************************************************************)
convert_full_to_slim(records) ==
  [i \in 1..Len(records) |->
     [title |-> records[i].title, image |-> records[i].image, url |-> records[i].url]]

EmptyIndex == [pag |-> Absent, pages |-> << >>, stats |-> Absent]

PageFile(g, idx) == IF idx \in DOMAIN g.pages THEN g.pages[idx] ELSE Absent

PutPage(pages, idx, file) ==
  IF Exists(file) THEN (idx :> file) @@ pages
  ELSE pages

\* read_ok: gi_paths' ensure_dir, open and json.load raised nothing.  They are in
\* no try: a failing read, and json.load of a file that holds no JSON, raise.
gi_load_pagination(g, read_ok) ==
  IF read_ok /\ g.pag.state = "ok"
  THEN [raised |-> FALSE, total_articles |-> g.pag.data.total_articles,
        files |-> g.pag.data.files]
  ELSE [raised |-> ~read_ok \/ g.pag.state = "corrupt", total_articles |-> 0,
        files |-> << >>]

\* One call's I/O: whether pagination.json could be read, the outcome of creating
\* a missing tail page, of reading the tail page, of creating the next page, of writing the page, of writing
\* pagination.json and stats.json (a failure of these two raises), and the write
\* at which the process is killed, if it is: after it, or, when its outcome is
\* "partial", in the middle of it.
NoFault == [load_ok |-> TRUE, init |-> "ok", read_ok |-> TRUE, rot |-> "ok", page |-> "ok",
            pag |-> "ok", stats |-> "ok", stop |-> "none"]

\* No page file can be written in this call (every save_json_list logs and goes on).
PageUnwritable == [NoFault EXCEPT !.init = "fail", !.rot = "fail", !.page = "fail"]

GiFaults ==
  {NoFault, PageUnwritable}
  \cup { [NoFault EXCEPT !.load_ok = FALSE] }
  \cup { [NoFault EXCEPT !.init = o] : o \in {"fail", "partial"} }
  \cup { [NoFault EXCEPT !.read_ok = FALSE] }
  \cup { [NoFault EXCEPT !.rot = o] : o \in {"fail", "partial"} }
  \cup { [NoFault EXCEPT !.page = o] : o \in {"fail", "partial"} }
  \cup { [NoFault EXCEPT !.pag = o] : o \in {"fail", "partial"} }
  \cup { [NoFault EXCEPT !.stats = o] : o \in {"fail", "partial"} }
  \cup { [NoFault EXCEPT !.stop = o] : o \in {"init", "rotate", "page", "pagination"} }
  \cup { [NoFault EXCEPT !.init = "partial", !.stop = "init"],
         [NoFault EXCEPT !.rot = "partial", !.stop = "rotate"],
         [NoFault EXCEPT !.page = "partial", !.stop = "page"],
         [NoFault EXCEPT !.pag = "partial", !.stop = "pagination"],
         [NoFault EXCEPT !.stats = "partial", !.stop = "stats"] }

\* The steps of the call, in order: a call stopped at one does none of the later.
GiStep(x) ==
  CASE x = "init" -> 1 [] x = "rotate" -> 2 [] x = "page" -> 3 [] x = "pagination" -> 4
    [] x = "stats" -> 5 [] OTHER -> 6

RotateAt(n) == n >= GLOBAL_PAGE_SIZE

TotalAfter(total, n) == total + n

\* A variant that takes the first listed page for the writable one.
FirstOf(files) == files[1]

\* pag["files"][-1]
TailOf(files) == files[Len(files)]

\* A variant whose added_today is the running total.
gi_stats_total(total, added_today) == [total_articles |-> total, added_today |-> total]

\* gi_save_stats: the snapshot (its last_update is not modelled).
gi_stats(total, added_today) == [total_articles |-> total, added_today |-> added_today]

gi_append_records(g, new_records, f) ==
  IF new_records = << >>
  THEN [g |-> g, raised |-> FALSE, killed |-> FALSE, faulted |-> FALSE, wrote |-> {}]
  ELSE IF gi_load_pagination(g, f.load_ok).raised
  THEN [g |-> g, raised |-> TRUE, killed |-> FALSE, faulted |-> ~f.load_ok, wrote |-> {}]
  ELSE
  LET pag == gi_load_pagination(g, f.load_ok)
      fresh == pag.files = << >>
      files1 == IF fresh THEN << 1 >> ELSE pag.files
      cur1 == TailOf(files1)
      make1 == fresh \/ ~Exists(PageFile(g, cur1))
      pages1 == IF make1
                THEN PutPage(g.pages, cur1, save_json_list(PageFile(g, cur1), << >>, f.init))
                ELSE g.pages
      g1 == [g EXCEPT !.pages = pages1]
      items1 == load_json_list(PageFile(g1, cur1), f.read_ok)
      rotate == RotateAt(Len(items1))
      cur2 == IF rotate THEN Len(files1) + 1 ELSE cur1
      files2 == IF rotate THEN Append(files1, cur2) ELSE files1
      pages2 == IF rotate
                THEN PutPage(pages1, cur2, save_json_list(PageFile(g1, cur2), << >>, f.rot))
                ELSE pages1
      g2 == [g EXCEPT !.pages = pages2]
      items2 == (IF rotate THEN << >> ELSE items1) \o new_records
      pages3 == PutPage(pages2, cur2, save_json_list(PageFile(g2, cur2), items2, f.page))
      total == TotalAfter(pag.total_articles, Len(new_records))
      \* the last step the call reaches: the kill, or the write that raises
      last == IF f.stop # "none" THEN GiStep(f.stop)
              ELSE IF f.pag # "ok" THEN GiStep("pagination")
              ELSE IF f.stats # "ok" THEN GiStep("stats")
              ELSE GiStep("none")
      pagesOut == IF last = GiStep("init") THEN pages1
                  ELSE IF last = GiStep("rotate") THEN pages2
                  ELSE pages3
      pagOut == IF last < GiStep("pagination") THEN g.pag
                ELSE CASE f.pag = "ok" ->
                            ManifestFile([total_articles |-> total, files |-> files2])
                       [] f.pag = "fail" -> g.pag
                       [] OTHER -> Corrupt
      statsOut == IF last < GiStep("stats") THEN g.stats
                  ELSE CASE f.stats = "ok" -> ManifestFile(gi_stats(total, Len(new_records)))
                         [] f.stats = "fail" -> g.stats
                         [] OTHER -> Corrupt
      faulted == \/ make1 /\ f.init # "ok"
                 \/ PageFile(g1, cur1).state = "ok" /\ ~f.read_ok
                 \/ rotate /\ f.rot # "ok"
                 \/ f.page # "ok"
                 \/ f.pag # "ok"
                 \/ f.stats # "ok"
                 \/ f.stop # "none"
  IN  [g |-> [pag |-> pagOut, pages |-> pagesOut, stats |-> statsOut],
       raised |-> last < GiStep("none"),
       killed |-> f.stop # "none",
       faulted |-> faulted,
       wrote |-> (IF \/ make1 /\ f.init # "fail"
                     \/ last >= GiStep("rotate") /\ rotate /\ f.rot # "fail"
                     \/ last >= GiStep("page") /\ f.page # "fail"
                  THEN {"page"} ELSE {})
                 \cup (IF last >= GiStep("pagination") /\ f.pag # "fail"
                       THEN {"pagination"} ELSE {})
                 \cup (IF last >= GiStep("stats") /\ f.stats # "fail"
                       THEN {"stats"} ELSE {})]

(***************************************************************************)
(* Telegram senders.                                                       *)
(***************************************************************************)
keypub(r) ==
  IF r.published = NoTime THEN 0 - 1
  ELSE r.published.day * 24 + r.published.hour

\* sorted(..., reverse=True) is stable: equal keys keep their order.
RECURSIVE InsertDesc(_, _)
InsertDesc(s, x) ==
  IF s = << >> THEN << x >>
  ELSE IF keypub(Head(s)) >= keypub(x) THEN << Head(s) >> \o InsertDesc(Tail(s), x)
  ELSE << x >> \o s

RECURSIVE SortFrom(_, _)
SortFrom(acc, s) == IF s = << >> THEN acc ELSE SortFrom(InsertDesc(acc, Head(s)), Tail(s))

HasImage(r) == Truthy(r.image)

\* group_ok, msg_ok: whether send_media_group and send_message succeed.
\* sent: the records the chat received; raised: send_message's exception leaves the function.
send_crunchyroll_album(new_records, group_ok, msg_ok) ==
  IF new_records = << >> THEN [sent |-> << >>, raised |-> FALSE]
  ELSE LET candidates == SortFrom(<< >>, new_records)
           photos == Prefix(SelectSeq(candidates, HasImage), AlbumMax)
           lines == Prefix(candidates, AlbumMax)
       IN  IF photos # << >> /\ group_ok THEN [sent |-> photos, raised |-> FALSE]
           ELSE IF msg_ok THEN [sent |-> lines, raised |-> FALSE]
           ELSE [sent |-> << >>, raised |-> TRUE]

\* The records the album (or, without photos, the text list) is built from.
Selected(new_records) ==
  IF new_records = << >> THEN {}
  ELSE LET candidates == SortFrom(<< >>, new_records)
           photos == Prefix(SelectSeq(candidates, HasImage), AlbumMax)
       IN  IF photos # << >> THEN SeqToSet(photos) ELSE SeqToSet(Prefix(candidates, AlbumMax))

Vids == {"v1", "v2"}

\* The videos the channel feed of the modelled run shows first.
RunVids == {"v1"}

\* A variant that goes on to the persist step whether or not the send succeeded.
persist_always(send_ok) == TRUE

\* The except branch of the send returns: the persist step runs only after a
\* send that raised nothing.
persist_after(send_ok) == send_ok

\* f.write((vid or "") + "\n"); f.write(old): the lines of the file after the update.
ledger_prepend(vid, old) == << Or2(vid, "") >> \o old

\* What is left of a line the file system cut short: a proper prefix of an
\* identity, which is no identity.
TornLine == "v"

\* The ledger is rewritten by open(..., "w"), f.write(vid + "\n"), f.write(old),
\* through one buffered file.  The update succeeds ("ok"), or open raises and the
\* old file stays ("fail"), or the write is cut short ("cut"): the file keeps a
\* prefix of the new content, `lines` whole lines and, when torn, the beginning
\* of the next one.  (All lines may be there, the last without its newline.)
LedgerOutcomes ==
  { [kind |-> k, lines |-> 0, torn |-> FALSE] : k \in {"ok", "fail"} }
  \cup { [kind |-> "cut", lines |-> n, torn |-> t] : n \in 0..MaxLedger, t \in BOOLEAN }

LedgerOk == [kind |-> "ok", lines |-> 0, torn |-> FALSE]

\* has_entry: the channel feed has an entry; vid: the identity of feed.entries[0],
\* Null when the entry carries neither yt_videoid nor id.
\* pre_ok: the access to the ledger before the send raised nothing: write_text("")
\* that creates the missing file, or open and readline of the existing one.  They
\* are in no try: when one raises, the exception leaves the function (raised) and
\* the ledger is as it was.
\* sent: the send returned; stored: the ledger update then succeeded.
send_youtube_if_new(led, has_entry, vid, pre_ok, send_ok, outcome) ==
  IF ~has_entry
  THEN [ledger |-> led, sent |-> FALSE, stored |-> FALSE, wrote |-> FALSE, faulted |-> FALSE,
        raised |-> FALSE]
  ELSE IF ~pre_ok
  THEN [ledger |-> led, sent |-> FALSE, stored |-> FALSE, wrote |-> FALSE, faulted |-> TRUE,
        raised |-> TRUE]
  ELSE LET created == ~Exists(led)
           led1 == IF created THEN ListFile(<< >>) ELSE led
           last == IF led1.data = << >> THEN Null ELSE Or2(Head(led1.data), Null)
           persist == persist_after(send_ok)
           content == ledger_prepend(vid, led1.data)
       IN  IF Truthy(last) /\ Truthy(vid) /\ vid = last
           THEN [ledger |-> led1, sent |-> FALSE, stored |-> FALSE, wrote |-> created,
                 faulted |-> FALSE, raised |-> FALSE]
           ELSE [ledger |-> IF ~persist THEN led1
                            ELSE CASE outcome.kind = "ok" -> ListFile(content)
                                   [] outcome.kind = "fail" -> led1
                                   [] OTHER ->
                                        ListFile(Prefix(content, outcome.lines)
                                                 \o (IF outcome.torn THEN << TornLine >>
                                                     ELSE << >>)),
                 sent |-> send_ok,
                 stored |-> persist /\ outcome.kind = "ok",
                 wrote |-> created \/ (persist /\ outcome.kind # "fail"),
                 faulted |-> ~send_ok \/ (persist /\ outcome.kind # "ok"),
                 raised |-> FALSE]

(***************************************************************************)
(* State.                                                                  *)
(***************************************************************************)
VARIABLES
  now,           \* index in Calendar of the current local day
  pc,            \* position of run(): "idle" between cycles
  feed,          \* news_feed.entries of the running cycle, until they are read
  added,         \* added_records of the running cycle
  day_files,     \* data/YYYY/MM/DD-MM.json, by path
  dirs,          \* the month directories data/YYYY/MM that exist
  month_files,   \* month_manifest.json, by month directory
  year_files,    \* year_manifest.json, by year
  gi,            \* global_index: pagination.json, index_N.json, stats.json
  ledger,        \* sent_videos.txt
  delivered,     \* how often the chat received each record (counted to 2)
  yt_delivered,  \* how often the chat received each video (counted to 2), Null: one without id
  yt_last,       \* the cycle's send_youtube_if_new call: its video, whether it was sent and stored
  written,       \* kinds of file the running (or last) cycle wrote
  ran,           \* steps the running (or last) cycle executed
  save_failed,   \* the cycle's write of the day partition failed
  mf_failed,     \* the cycle's write of a manifest failed
  crashed,       \* the cycle was ended by a process crash
  undelivered,   \* records a cycle archived and selected, whose send did not happen
  gi_fault,      \* some gi_append_records call met an I/O failure
  faults,        \* I/O failures and crashes so far
  calls          \* direct gi_append_records calls so far (SpecGI)

vars == << now, pc, feed, added, day_files, dirs, month_files, year_files, gi, ledger,
           delivered, yt_delivered, yt_last, written, ran, save_failed, mf_failed, crashed,
           undelivered, gi_fault, faults, calls >>

disk == << day_files, dirs, month_files, year_files, gi, ledger >>

NoSend == [vid |-> Null, sent |-> FALSE, stored |-> FALSE]

Batches == UNION { [1..n -> Entries] : n \in 0..MaxBatch }

AnonCount(s) == Cardinality({ i \in 1..Len(s) : Anonymous(s[i]) })

AnonEntries(f) == Cardinality({ i \in 1..Len(f) : Anonymous(build_full_record(f[i])) })

Count(n) == IF n < 2 THEN n + 1 ELSE 2

Init ==
  /\ now = 1
  /\ pc = "idle"
  /\ feed = << >>
  /\ added = << >>
  /\ day_files = [p \in DayPaths |-> Absent]
  /\ dirs = {}
  /\ month_files = [md \in MonthDirs |-> Absent]
  /\ year_files = [y \in Years |-> Absent]
  /\ gi = EmptyIndex
  /\ ledger = Absent
  /\ delivered = [r \in Records |-> 0]
  /\ yt_delivered = [v \in Vids \cup {Null} |-> 0]
  /\ yt_last = NoSend
  /\ written = {}
  /\ ran = {}
  /\ save_failed = FALSE
  /\ mf_failed = FALSE
  /\ crashed = FALSE
  /\ undelivered = {}
  /\ gi_fault = FALSE
  /\ faults = 0
  /\ calls = 0

Spend(fault) ==
  /\ fault => faults < MaxFaults
  /\ faults' = IF fault THEN faults + 1 ELSE faults

\* The cycle is over: its locals are gone.
EndCycle == pc' = "idle" /\ feed' = << >> /\ added' = << >>

\* The feeds of the modelled run: one entry with id, link and image, one with a title only.
RunEntries == { e \in Entries : e.title \in {"t1", "c"} }

RunBatches == UNION { [1..n -> RunEntries] : n \in 0..MaxBatch }

\* run: news_feed = feedparser.parse(...); if news_feed.entries: ... else: ...
FetchFrom(batches) ==
  /\ pc = "idle"
  /\ \E f \in batches :
       /\ \A p \in DayPaths : AnonEntries(f) + AnonCount(day_files[p].data) <= MaxAnon
       /\ feed' = f
       /\ pc' = IF f = << >> THEN "youtube" ELSE "save"
  /\ added' = << >>
  /\ written' = {}
  /\ ran' = {}
  /\ save_failed' = FALSE
  /\ mf_failed' = FALSE
  /\ crashed' = FALSE
  /\ yt_last' = NoSend
  /\ UNCHANGED << now, disk, delivered, yt_delivered, undelivered, gi_fault, faults, calls >>

Fetch == FetchFrom(RunBatches)

\* run: added_records, day_path = save_full_news_of_today(news_feed.entries, ...)
\* mkdir_ok: ensure_dir of the month directory (daily_path) raised nothing; when
\* it raises, the exception leaves run() and nothing was made or written.
\* killed: the process dies right after the directory was made ("mkdir"), or
\* while the partition is being written ("write"), which leaves the file unreadable.
Save ==
  /\ pc = "save"
  /\ \E mkdir_ok, read_ok \in BOOLEAN, outcome \in WriteOutcomes,
        killed \in {"no", "mkdir", "write"} :
       LET today == now_local(now)
           path == daily_path(today)
           r == save_full_news_of_today(day_files[path], feed, mkdir_ok, read_ok, outcome)
       IN  /\ ~mkdir_ok => (read_ok /\ outcome = "ok" /\ killed = "no")
           /\ killed = "mkdir" => (read_ok /\ outcome = "ok")
           /\ killed = "write" => (read_ok /\ outcome = "partial")
           /\ ~read_ok => day_files[path].state = "ok"
           /\ r.added = << >> => outcome = "ok"
           /\ Spend(~mkdir_ok \/ ~read_ok \/ r.failed \/ killed # "no")
           /\ day_files' = IF killed = "mkdir" THEN day_files
                           ELSE [day_files EXCEPT ![path] = r.file]
           /\ dirs' = IF r.raised THEN dirs ELSE dirs \cup {month_dir(today)}
           /\ save_failed' = r.failed
           /\ written' = IF r.wrote /\ killed # "mkdir" THEN written \cup {"day"} ELSE written
           /\ crashed' = (killed # "no")
           /\ IF r.raised \/ killed # "no" THEN EndCycle
              ELSE pc' = "send" /\ feed' = << >> /\ added' = r.added
  /\ ran' = ran \cup {"save"}
  /\ UNCHANGED << now, month_files, year_files, gi, ledger, delivered, yt_delivered, yt_last,
                  mf_failed, undelivered, gi_fault, calls >>

\* run: await send_crunchyroll_album(bot, added_records)
Send ==
  /\ pc = "send"
  /\ \E group_ok, msg_ok \in BOOLEAN :
       LET r == send_crunchyroll_album(added, group_ok, msg_ok)
           got == SeqToSet(r.sent)
       IN  /\ added = << >> => group_ok /\ msg_ok
           /\ Spend(~group_ok \/ ~msg_ok)
           /\ delivered' = [x \in Records |->
                              IF x \in got THEN Count(delivered[x]) ELSE delivered[x]]
           /\ undelivered' = undelivered \cup (Selected(added) \ got)
           /\ IF r.raised THEN EndCycle
              ELSE pc' = "manifest" /\ UNCHANGED << feed, added >>
  /\ ran' = ran \cup {"send"}
  /\ UNCHANGED << now, disk, yt_delivered, yt_last, written, save_failed, mf_failed, crashed,
                  gi_fault, calls >>

\* run: today = now_local(); update_month_manifest(today); update_year_manifest(today)
\* fail: where the rebuild stops, if it does; cut: the failing write was begun;
\* killed: the cycle stops there because the process is killed, not by an exception.
Manifests ==
  /\ pc = "manifest"
  /\ \E fail \in ManifestFaults, cut, killed \in BOOLEAN :
       LET r == update_manifests(dirs, day_files, month_files, year_files, now_local(now),
                                 fail, cut)
       IN  /\ fail \in {"none", "mkdir"} => ~cut
           /\ killed => fail \in {"month", "year"}
           /\ Spend(fail # "none")
           /\ dirs' = r.dirs
           /\ month_files' = r.month_files
           /\ year_files' = r.year_files
           /\ written' = written \cup r.wrote
           /\ mf_failed' = (r.raised /\ ~killed)
           /\ crashed' = killed
           /\ IF r.raised THEN EndCycle
              ELSE pc' = "index" /\ UNCHANGED << feed, added >>
  /\ ran' = ran \cup {"manifest"}
  /\ UNCHANGED << now, day_files, gi, ledger, delivered, yt_delivered, yt_last, save_failed,
                  undelivered, gi_fault, calls >>

\* run: slim = convert_full_to_slim(added_records); gi_append_records(slim)
Index ==
  /\ pc = "index"
  /\ \E f \in GiFaults :
       LET r == gi_append_records(gi, convert_full_to_slim(added), f)
       IN  /\ Spend(f # NoFault)
           /\ f # NoFault => r.faulted
           /\ gi' = r.g
           /\ gi_fault' = (gi_fault \/ r.faulted)
           /\ written' = written \cup r.wrote
           /\ crashed' = r.killed
           /\ IF r.raised THEN EndCycle
              ELSE pc' = "youtube" /\ UNCHANGED << feed, added >>
  /\ ran' = ran \cup {"index"}
  /\ UNCHANGED << now, day_files, dirs, month_files, year_files, ledger, delivered,
                  yt_delivered, yt_last, save_failed, mf_failed, undelivered, calls >>

\* run: await send_youtube_if_new(bot); vids: the identities the first entry of the
\* channel feed may carry (Null: none), when the feed has an entry.
\* killed: the process dies inside the call, at the await of the send (the send
\* did not happen) or in the ledger update (no write, or one cut short).
YouTubeFrom(vids) ==
  /\ pc = "youtube"
  /\ \E has_entry \in BOOLEAN, vid \in vids, pre_ok, send_ok \in BOOLEAN,
        outcome \in LedgerOutcomes, killed \in BOOLEAN :
       LET r == send_youtube_if_new(ledger, has_entry, vid, pre_ok, send_ok, outcome)
       IN  /\ ~pre_ok => (r.raised /\ send_ok /\ ~killed)
           /\ ~r.sent => outcome = LedgerOk
           /\ (~r.sent /\ ~r.faulted) => send_ok
           /\ r.sent => Len(ledger.data) < MaxLedger
           /\ outcome.lines <= Len(ledger.data) + 1
           /\ outcome.torn => outcome.lines <= Len(ledger.data)
           /\ killed => r.faulted
           /\ Spend(r.faulted)
           /\ ledger' = r.ledger
           /\ yt_delivered' = IF r.sent
                              THEN [yt_delivered EXCEPT ![vid] = Count(yt_delivered[vid])]
                              ELSE yt_delivered
           /\ yt_last' = [vid |-> IF has_entry THEN vid ELSE Null, sent |-> r.sent,
                          stored |-> r.stored]
           /\ written' = IF r.wrote THEN written \cup {"ledger"} ELSE written
           /\ crashed' = killed
  /\ EndCycle
  /\ ran' = ran \cup {"youtube"}
  /\ UNCHANGED << now, day_files, dirs, month_files, year_files, gi, delivered,
                  save_failed, mf_failed, undelivered, gi_fault, calls >>

YouTube == YouTubeFrom(RunVids)

\* The process dies between two steps of run.
Crash ==
  /\ pc # "idle"
  /\ Spend(TRUE)
  /\ crashed' = TRUE
  /\ undelivered' = undelivered \cup (IF pc = "send" THEN Selected(added) ELSE {})
  /\ EndCycle
  /\ UNCHANGED << now, disk, delivered, yt_delivered, yt_last, written, ran, save_failed,
                  mf_failed, gi_fault, calls >>

\* Midnight passes.  The day is read by save_full_news_of_today and again before the
\* manifests are rebuilt: midnight at any other point of a cycle is the same as
\* midnight between two cycles.
Tick ==
  /\ pc \in {"idle", "manifest"}
  /\ now < NumDays
  /\ now' = now + 1
  /\ UNCHANGED << pc, feed, added, disk, delivered, yt_delivered, yt_last, written, ran,
                  save_failed, mf_failed, crashed, undelivered, gi_fault, faults, calls >>

Next == Fetch \/ Save \/ Send \/ Manifests \/ Index \/ YouTube \/ Crash \/ Tick

Spec == Init /\ [][Next]_vars

(***************************************************************************)
(* save_full_news_of_today alone: any batch of entries, identity-less ones *)
(* included, is submitted; what the call returns is then dropped.          *)
(***************************************************************************)
FetchAny == FetchFrom(Batches \ {<< >>})

Discard ==
  /\ pc = "send"
  /\ EndCycle
  /\ UNCHANGED << now, disk, delivered, yt_delivered, yt_last, written, ran, save_failed,
                  mf_failed, crashed, undelivered, gi_fault, faults, calls >>

NextSave == FetchAny \/ Save \/ Discard

\* The calls of one local day, whichever day that is.
InitSave ==
  /\ now \in 1..NumDays
  /\ pc = "idle"
  /\ feed = << >>
  /\ added = << >>
  /\ day_files = [p \in DayPaths |-> Absent]
  /\ dirs = {}
  /\ month_files = [md \in MonthDirs |-> Absent]
  /\ year_files = [y \in Years |-> Absent]
  /\ gi = EmptyIndex
  /\ ledger = Absent
  /\ delivered = [r \in Records |-> 0]
  /\ yt_delivered = [v \in Vids \cup {Null} |-> 0]
  /\ yt_last = NoSend
  /\ written = {}
  /\ ran = {}
  /\ save_failed = FALSE
  /\ mf_failed = FALSE
  /\ crashed = FALSE
  /\ undelivered = {}
  /\ gi_fault = FALSE
  /\ faults = 0
  /\ calls = 0

SpecSave == InitSave /\ [][NextSave]_vars

(***************************************************************************)
(* gi_append_records alone: called with batches of slim records whose      *)
(* sizes lie around the page size.                                         *)
(***************************************************************************)
GiBatchSizes == {1, GLOBAL_PAGE_SIZE, GLOBAL_PAGE_SIZE + 1}

\* The slim record of the feed entry with id "a".
SlimRecord ==
  LET e == CHOOSE x \in Entries : x.id = "a"
  IN  convert_full_to_slim(<< build_full_record(e) >>)[1]

SlimBatch(n) == [i \in 1..n |-> SlimRecord]

GiCall ==
  /\ calls < MaxCalls
  /\ \E n \in GiBatchSizes, f \in GiFaults :
       LET r == gi_append_records(gi, SlimBatch(n), f)
       IN  /\ Spend(f # NoFault)
           /\ f # NoFault => r.faulted
           /\ gi' = r.g
           /\ gi_fault' = (gi_fault \/ r.faulted)
           /\ written' = r.wrote
           /\ crashed' = r.killed
  /\ calls' = calls + 1
  /\ UNCHANGED << now, pc, feed, added, day_files, dirs, month_files, year_files, ledger,
                  delivered, yt_delivered, yt_last, ran, save_failed, mf_failed, undelivered >>

NextGI == GiCall

SpecGI == Init /\ [][NextGI]_vars

(***************************************************************************)
(* update_month_manifest and update_year_manifest alone, over a data       *)
(* directory that holds partitions of earlier days; calls of               *)
(* save_full_news_of_today add today's partition in between.               *)
(***************************************************************************)
OldPartition == ListFile(<< build_full_record(CHOOSE e \in Entries : e.id = "a") >>)

InitManifest ==
  /\ now = 1
  /\ pc = "idle"
  /\ feed = << >>
  /\ added = << >>
  /\ \E S \in SUBSET ArchivedBefore :
       /\ day_files = [p \in DayPaths |-> IF p \in S THEN OldPartition ELSE Absent]
       /\ dirs = { << p[1], p[2] >> : p \in S }
  /\ month_files = [md \in MonthDirs |-> Absent]
  /\ year_files = [y \in Years |-> Absent]
  /\ gi = EmptyIndex
  /\ ledger = Absent
  /\ delivered = [r \in Records |-> 0]
  /\ yt_delivered = [v \in Vids \cup {Null} |-> 0]
  /\ yt_last = NoSend
  /\ written = {}
  /\ ran = {}
  /\ save_failed = FALSE
  /\ mf_failed = FALSE
  /\ crashed = FALSE
  /\ undelivered = {}
  /\ gi_fault = FALSE
  /\ faults = 0
  /\ calls = 0

\* update_month_manifest(today); update_year_manifest(today), called on their own.
ManifestCall ==
  /\ pc = "idle"
  /\ calls < MaxCalls
  /\ \E fail \in ManifestFaults, cut, killed \in BOOLEAN :
       LET r == update_manifests(dirs, day_files, month_files, year_files, now_local(now),
                                 fail, cut)
       IN  /\ fail \in {"none", "mkdir"} => ~cut
           /\ killed => fail \in {"month", "year"}
           /\ Spend(fail # "none")
           /\ dirs' = r.dirs
           /\ month_files' = r.month_files
           /\ year_files' = r.year_files
           /\ written' = r.wrote
           /\ mf_failed' = (r.raised /\ ~killed)
           /\ crashed' = killed
  /\ calls' = calls + 1
  /\ UNCHANGED << now, pc, feed, added, day_files, gi, ledger, delivered, yt_delivered, yt_last,
                  ran, save_failed, undelivered, gi_fault >>

\* The manifests depend on which partitions exist, not on what they hold: the
\* feeds of these cycles carry one entry.
FetchOne == FetchFrom({ << e >> : e \in RunEntries })

NextManifest == FetchOne \/ Save \/ Discard \/ ManifestCall \/ Tick

SpecManifest == InitManifest /\ [][NextManifest]_vars

(***************************************************************************)
(* send_youtube_if_new alone: cycles whose news feed is empty, the channel *)
(* feed showing any of the videos first.                                   *)
(***************************************************************************)
FetchNone == FetchFrom({<< >>})

YouTubeAny == YouTubeFrom(Vids \cup {Null})

NextYT == FetchNone \/ YouTubeAny \/ Crash

SpecYT == Init /\ [][NextYT]_vars

(***************************************************************************)
(* The run under fair scheduling: the scheduler keeps starting cycles, a    *)
(* cycle that is neither killed nor stopped by an exception goes on, and   *)
(* midnight comes as long as the calendar has a next day.                  *)
(***************************************************************************)
Progress == Fetch \/ Save \/ Send \/ Manifests \/ Index \/ YouTube

FairSpec == Init /\ [][Next]_vars /\ WF_vars(Progress) /\ SF_vars(Tick)

(***************************************************************************)
(* Properties.                                                             *)
(***************************************************************************)
\* The path of the partition of the current local day, written out.
TodayPath == << Calendar[now].y, Calendar[now].m, Calendar[now].d >>

\* What a partition file holds for a reader: nothing unless it is a readable list.
Content(file) == IF file.state = "ok" THEN file.data ELSE << >>

\* C1: in every day partition file, no two records have the same non-null id,
\* and no two records have the same non-empty url (in particular none of those
\* without id).  Records with neither id nor url are outside the claim.
C1_NoDuplicateInPartition ==
  \A p \in DayPaths :
    LET s == day_files[p].data
    IN  \A i, j \in 1..Len(s) :
          i < j => /\ ~(Truthy(s[i].id) /\ s[i].id = s[j].id)
                   /\ ~(Truthy(s[i].url) /\ s[i].url = s[j].url)

\* C1 witness: a batch was submitted to a partition that already holds two
\* records, and every entry of it was recognised as already archived.
C1_Witness ==
  /\ pc = "send"
  /\ added = << >>
  /\ ~save_failed
  /\ Len(day_files[TodayPath].data) >= 2

\* C2 (as claimed): every call of save_full_news_of_today returns exactly what it
\* appended: the partition afterwards is the partition before followed by the
\* returned records, and no returned record has an id or url the partition held.
C2_ReturnsExactlyAppended ==
  [][(pc = "save" /\ pc' = "send") =>
       LET old == Content(day_files[TodayPath])
       IN  /\ Content(day_files'[TodayPath]) = old \o added'
           /\ \A i \in 1..Len(added') :
                /\ ~(Truthy(added'[i].id) /\ added'[i].id \in SeenIds(old))
                /\ ~(Truthy(added'[i].url) /\ added'[i].url \in SeenUrls(old))]_vars

\* C3 (as claimed, in the runs without any I/O failure or crash, where it fails
\* already): no record and no video is delivered to the chat a second time.
C3_NeverDeliveredTwice ==
  faults = 0 => /\ \A r \in Records : delivered[r] <= 1
                /\ \A v \in Vids : yt_delivered[v] <= 1

\* The running cycle has fetched a feed that carries the entry of record r.
Reoffered(r) ==
  pc = "save" /\ \E i \in 1..Len(feed) : build_full_record(feed[i]) = r

\* The record of the entry with id "a".
RecA == build_full_record(CHOOSE e \in Entries : e.id = "a")

\* C4 (as claimed, for one record): a record that was archived and selected for
\* the album, whose send did not happen (crash or failed delivery), and whose
\* entry a later cycle fetches again on a day that is not the calendar's last,
\* is eventually delivered.
C4_EventuallyDelivered ==
  (RecA \in undelivered /\ Reoffered(RecA) /\ now < NumDays) ~> (delivered[RecA] > 0)

PageLen(idx) == Len(PageFile(gi, idx).data)

\* C5 (as claimed, with no I/O failure in any call): every listed page but the
\* last holds exactly 500 items and the last holds at most 500.
C5_PageCapacity ==
  ~gi_fault =>
    LET files == gi_load_pagination(gi, TRUE).files
    IN  \A k \in 1..Len(files) :
          IF k < Len(files) THEN PageLen(files[k]) = GLOBAL_PAGE_SIZE
          ELSE PageLen(files[k]) <= GLOBAL_PAGE_SIZE

RECURSIVE SumPagesOf(_, _)
SumPagesOf(g, files) ==
  IF files = << >> THEN 0
  ELSE Len(PageFile(g, Head(files)).data) + SumPagesOf(g, Tail(files))

\* The last gi_append_records call ran to completion: it wrote stats.json, its
\* last statement, whole.
Completed == "stats" \in written /\ gi.stats.state = "ok"

\* C6 (as claimed): a call of gi_append_records that runs to completion on an
\* index whose total_articles is the sum of the lengths of its listed pages (the
\* empty index is one) leaves such an index.
C6_TotalIsSumOfPages ==
  [][(calls' = calls + 1 /\ Completed') =>
       LET pag == gi_load_pagination(gi, TRUE)
           pag2 == gi_load_pagination(gi', TRUE)
       IN  pag.total_articles = SumPagesOf(gi, pag.files)
             => pag2.total_articles = SumPagesOf(gi', pag2.files)]_vars

ArchiveKinds == {"day", "month", "year", "page", "pagination", "stats"}

\* C7 (as claimed): a cycle in which save_full_news_of_today found nothing new
\* writes no day partition, manifest, index page, pagination.json or stats.json.
C7_EmptyCycleWritesNothing ==
  (pc \in {"send", "manifest", "index", "youtube"} /\ added = << >>)
    => written \cap ArchiveKinds = {}

\* The partition path of the local day a record was published on.
PublishedPath(rec) ==
  << Calendar[rec.published.day].y, Calendar[rec.published.day].m,
     Calendar[rec.published.day].d >>

\* C8 (as claimed): a record with a published timestamp lies in the partition of
\* the local day of that timestamp.
C8_ArchivedOnPublishedDay ==
  \A p \in DayPaths :
    \A k \in 1..Len(day_files[p].data) :
      day_files[p].data[k].published # NoTime
        => PublishedPath(day_files[p].data[k]) = p

\* C8 (amended): a call of save_full_news_of_today touches only the partition of
\* the local day on which it runs, and every record it returns after a successful
\* write lies in that partition, whatever the record's published timestamp.
C8_ArchivedOnProcessingDay ==
  [][(pc = "save" /\ pc' = "send") =>
       /\ \A p \in DayPaths \ {TodayPath} : day_files'[p] = day_files[p]
       /\ ~save_failed' =>
            \A i \in 1..Len(added') :
              \E k \in 1..Len(day_files'[TodayPath].data) :
                day_files'[TodayPath].data[k] = added'[i]]_vars

\* C8 witness: a partition holds a record published on another local day.
C8_Witness ==
  \E k \in 1..Len(day_files[TodayPath].data) :
    /\ day_files[TodayPath].data[k].published # NoTime
    /\ PublishedPath(day_files[TodayPath].data[k]) # TodayPath

\* C9 (as claimed): when the write of the day partition fails, the call returns
\* no new records.
C9_WriteFailureReturnsNothing == save_failed => added = << >>

\* C10 (as claimed): a cycle in which writing a manifest failed, and which was not
\* killed, still appends to the global index and still runs the YouTube step.
C10_ManifestFailureNonFatal ==
  (mf_failed /\ pc = "idle" /\ ~crashed) => {"index", "youtube"} \subseteq ran

\* month_manifest.json of directory md lists exactly the day files the directory
\* holds, by day, in descending day order.
DaysListed(mfile, files, md) ==
  /\ mfile.state = "ok"
  /\ mfile.data.year = md[1]
  /\ mfile.data.month = md[2]
  /\ LET days == mfile.data.days
         present == { p \in DayPaths : p[1] = md[1] /\ p[2] = md[2] /\ files[p].state # "absent" }
     IN  /\ { days[i][2] : i \in 1..Len(days) } = present
         /\ \A i \in 1..Len(days) : days[i][2][3] = days[i][1]
         /\ \A i, j \in 1..Len(days) : i < j => days[i][1] > days[j][1]

\* year_manifest.json of year y lists exactly the month directories that exist, by
\* month, in descending order, each with the path of its month manifest.
MonthsListed(yfile, dirset, y) ==
  /\ yfile.state = "ok"
  /\ yfile.data.year = y
  /\ LET months == yfile.data.months
     IN  /\ { months[i][2] : i \in 1..Len(months) } = { d \in dirset : d[1] = y }
         /\ \A i \in 1..Len(months) : months[i][2][2] = months[i][1]
         /\ \A i, j \in 1..Len(months) : i < j => months[i][1] > months[j][1]

\* C11: a rebuild of the manifests that fails nowhere leaves a month manifest that
\* lists exactly the day files present in the month directory, in descending day
\* order, and a year manifest that lists exactly the month directories, in
\* descending order; when the manifests it finds in the directories it scans
\* already do so (they were rebuilt and no partition changed since), it leaves
\* both as they were.
C11_RebuildIdempotent ==
  [][(calls' = calls + 1 /\ ~mf_failed' /\ ~crashed') =>
       LET md == << Calendar[now].y, Calendar[now].m >>
           y == Calendar[now].y
       IN  /\ DaysListed(month_files'[md], day_files', md)
           /\ MonthsListed(year_files'[y], dirs', y)
           /\ (DaysListed(month_files[md], day_files, md) /\ MonthsListed(year_files[y], dirs, y))
                => (month_files' = month_files /\ year_files' = year_files)]_vars

\* C11 witness: the manifests were rebuilt a second time, without failure, over a
\* month directory that holds three day files and its manifest, and list the
\* three.
C11_Witness ==
  /\ calls >= 2
  /\ written = {"month", "year"}
  /\ ~mf_failed /\ ~crashed /\ faults = 0
  /\ month_files[<< Calendar[1].y, Calendar[1].m >>].state = "ok"
  /\ Len(month_files[<< Calendar[1].y, Calendar[1].m >>].data.days) = 3
  /\ DaysListed(month_files[<< Calendar[1].y, Calendar[1].m >>], day_files,
                << Calendar[1].y, Calendar[1].m >>)

\* C12: in every call of send_youtube_if_new the lines of the ledger change only
\* if the send of the call's video returned successfully, and every identity
\* the ledger then holds is that video's or was in the ledger before, a new
\* first line included; a call whose send raised leaves the lines as they were.
C12_LedgerWriteAfterSend ==
  [][(pc = "youtube" /\ "youtube" \in ran') =>
       /\ (ledger'.data # ledger.data) => yt_last'.sent
       /\ \A i \in 1..Len(ledger'.data) :
            ledger'.data[i] \in Vids =>
              \/ ledger'.data[i] = yt_last'.vid /\ yt_last'.sent
              \/ \E k \in 1..Len(ledger.data) : ledger.data[k] = ledger'.data[i]]_vars

\* C12 witness: the ledger holds a video, the channel showed another one, and the
\* send of that one failed.
C12_Witness ==
  /\ pc = "idle"
  /\ "youtube" \in ran
  /\ yt_last.vid # Null
  /\ ~yt_last.sent
  /\ ledger.data # << >>
  /\ Head(ledger.data) # yt_last.vid

\* How many lines of the ledger hold identity v.
Lines(v) == Cardinality({ i \in 1..Len(ledger.data) : ledger.data[i] = v })

\* C19 (as claimed): every successful ledger update of send_youtube_if_new leaves
\* the sent identity as first line, followed by all prior lines in their order;
\* no call removes a line the ledger held; and as long as no send and no ledger
\* write has failed, the ledger holds one line for every send that happened.
C19_LedgerPrepends ==
  /\ [](faults = 0 => \A v \in Vids : Lines(v) = yt_delivered[v])
  /\ [][(pc = "youtube" /\ "youtube" \in ran') =>
          /\ yt_last'.stored => ledger'.data = << Or2(yt_last'.vid, "") >> \o ledger.data
          /\ Len(ledger.data) <= Len(ledger'.data)
          /\ SubSeq(ledger'.data, Len(ledger'.data) - Len(ledger.data) + 1,
                    Len(ledger'.data)) = ledger.data]_vars

\* The slim projection of every record a day partition holds is in some index page.
AllIndexed ==
  \A p \in DayPaths :
    \A k \in 1..Len(Content(day_files[p])) :
      \E idx \in DOMAIN gi.pages :
        \E j \in 1..Len(Content(gi.pages[idx])) :
          Content(gi.pages[idx])[j] = convert_full_to_slim(<< Content(day_files[p])[k] >>)[1]

\* C13 (as claimed, in the runs whose index writes all succeeded): at the end of
\* a cycle that ran every step, archive and index included, without a failure,
\* every record stored in a day partition has its slim projection in some index
\* page, whatever stopped the cycles before it.
C13_IndexSelfHeals ==
  (/\ pc = "idle"
   /\ {"save", "send", "manifest", "index", "youtube"} \subseteq ran
   /\ ~crashed /\ ~save_failed /\ ~mf_failed /\ ~gi_fault)
    => AllIndexed

IsPrefix(s, t) == Len(s) <= Len(t) /\ SubSeq(t, 1, Len(s)) = s

\* C14 (as claimed): over every call of save_full_news_of_today, a failing read of
\* the partition included, the records a day partition held before the call are
\* a prefix of the records it holds after the call.
C14_PartitionAppendOnly ==
  [][(pc = "save" /\ pc' = "send") =>
       \A p \in DayPaths :
         (day_files[p].state = "ok" /\ day_files'[p].state = "ok")
           => IsPrefix(day_files[p].data, day_files'[p].data)]_vars

\* C15 (as claimed): in every persisted state, every page pagination.json lists
\* exists on disk.
C15_ListedPagesExist ==
  LET files == gi_load_pagination(gi, TRUE).files
  IN  \A k \in 1..Len(files) : Exists(PageFile(gi, files[k]))

PageLenOf(g, idx) == Len(PageFile(g, idx).data)

\* C16 (as claimed): a call of gi_append_records that runs to completion writes
\* its batch to one page and changes no other: the tail page when the index has
\* one that holds fewer than 500 items (the first page when the index is empty),
\* else a fresh page, which it appends to the list.
C16_BatchNeverSplit ==
  [][(calls' = calls + 1 /\ Completed') =>
       LET files == gi_load_pagination(gi, TRUE).files
           full == files # << >> /\ PageLenOf(gi, files[Len(files)]) >= GLOBAL_PAGE_SIZE
           target == IF files = << >> THEN 1
                     ELSE IF full THEN Len(files) + 1 ELSE files[Len(files)]
       IN  /\ gi_load_pagination(gi', TRUE).files =
                IF files = << >> \/ full THEN Append(files, target) ELSE files
           /\ \A idx \in (DOMAIN gi.pages \cup DOMAIN gi'.pages) \ {target} :
                PageFile(gi', idx) = PageFile(gi, idx)]_vars

\* C17: the list of a readable pagination.json is always index_1 .. index_n in
\* that order, a call that leaves pagination.json readable only ever appends names
\* at its end, and no call, failing ones included, changes a page listed before
\* the last one.
C17_OnlyTailWritable ==
  /\ [](LET files == gi_load_pagination(gi, TRUE).files
        IN  \A k \in 1..Len(files) : files[k] = k)
  /\ [][(calls' = calls + 1) =>
          LET files == gi_load_pagination(gi, TRUE).files
              after == gi_load_pagination(gi', TRUE).files
          IN  /\ gi'.pag.state # "corrupt" => IsPrefix(files, after)
              /\ \A k \in 1..(Len(files) - 1) :
                   PageFile(gi', files[k]) = PageFile(gi, files[k])]_vars

\* C17 witness: after a rotation, a further call appended to the new tail page.
C17_Witness ==
  /\ calls >= 3
  /\ gi_load_pagination(gi, TRUE).files = << 1, 2 >>
  /\ Exists(PageFile(gi, 1))
  /\ PageLenOf(gi, 2) = 2

\* C18: no call that leaves pagination.json readable lowers its total_articles;
\* after a call that ran to its end (it wrote stats.json whole), stats.json holds
\* pagination's total_articles and an added_today equal to the growth of the
\* total, which is the number of records the listed pages gained when every write
\* of the run succeeded.
C18_TotalMonotoneStatsMatch ==
  [][(calls' = calls + 1) =>
       LET pag == gi_load_pagination(gi, TRUE)
           pag2 == gi_load_pagination(gi', TRUE)
       IN  /\ gi'.pag.state # "corrupt" => pag2.total_articles >= pag.total_articles
           /\ ("stats" \in written' /\ gi'.stats.state = "ok") =>
                /\ gi'.pag.state = "ok"
                /\ gi'.stats.data.total_articles = pag2.total_articles
                /\ gi'.stats.data.added_today = pag2.total_articles - pag.total_articles
                /\ ~gi_fault' => gi'.stats.data.added_today =
                                   SumPagesOf(gi', pag2.files) - SumPagesOf(gi, pag.files)]_vars

\* C18 witness: a second call has completed, its batch smaller than the total.
C18_Witness ==
  /\ calls >= 2
  /\ "stats" \in written
  /\ gi.stats.state = "ok"
  /\ gi.stats.data.added_today < gi.stats.data.total_articles

\* C20 (as claimed, in the runs without any I/O failure or crash, where it fails
\* already): in every persisted state, every month manifest a year manifest
\* lists exists on disk.
C20_ListedMonthManifestsExist ==
  faults = 0 =>
    \A y \in Years :
      year_files[y].state = "ok" =>
        \A i \in 1..Len(year_files[y].data.months) :
          Exists(month_files[year_files[y].data.months[i][2]])

====
